---- MODULE Spec2Model ----
(***************************************************************************)
(* Change tracking of SSH FS Plus (src/src/quickDiff.ts): the baseline     *)
(* store of SSHQuickDiffManager, the line diff (computeChangedLines and    *)
(* myersMatchedIndices), the grouping of changed lines into blocks, and    *)
(* keepBlock / undoBlock.                                                  *)
(*                                                                         *)
(* A text is a sequence of one-character strings.  Stored baselines are    *)
(* byte sequences (Uint8Array), i.e. sequences of numbers.  Line numbers,  *)
(* columns and indices are 0-based as in the source; TLA+ sequences are    *)
(* 1-based, so the element with index i of a sequence s is s[i + 1].       *)
(***************************************************************************)
EXTENDS Integers, Sequences, FiniteSets, TLC

LF == "\n"
CR == "\r"

Min(a, b) == IF a < b THEN a ELSE b
Max(a, b) == IF a > b THEN a ELSE b

(***************************************************************************)
(* Bounds of the model.                                                    *)
(***************************************************************************)
\* the longest generated text has MaxLines lines
MaxLines == 3
\* raw texts (any mix of letters, CR and LF) have at most MaxRawLen characters
MaxRawLen == 2
\* an open document has at most MaxDocLines lines
MaxDocLines == 2
\* at most MaxOpenDocuments documents are open at a time
MaxOpenDocuments == 2
\* the host holds at most MaxTimeouts pending timeouts
MaxTimeouts == 3
\* the changed lines grouped on their own are line numbers 0..MaxLineNumber
MaxLineNumber == 7

(***************************************************************************)
(* String helpers of the JavaScript runtime.                               *)
(***************************************************************************)
\* Array.prototype.slice(from, to) with 0 <= from: the elements with index
\* from .. to-1, the empty array when from >= to.
slice(s, from, to) == SubSeq(s, from + 1, Min(to, Len(s)))

\* text.replace(/\r\n/g, '\n')
RECURSIVE replaceCRLF(_)
replaceCRLF(t) ==
  IF t = <<>> THEN <<>>
  ELSE IF Len(t) >= 2 /\ t[1] = CR /\ t[2] = LF
       THEN <<LF>> \o replaceCRLF(SubSeq(t, 3, Len(t)))
       ELSE <<t[1]>> \o replaceCRLF(Tail(t))

\* text.split('\n'): always at least one line
RECURSIVE split(_)
split(t) ==
  IF \A i \in 1..Len(t) : t[i] # LF THEN <<t>>
  ELSE LET i == CHOOSE j \in 1..Len(t) : t[j] = LF /\ \A h \in 1..(j - 1) : t[h] # LF
       IN  <<SubSeq(t, 1, i - 1)>> \o split(SubSeq(t, i + 1, Len(t)))

\* lines.join(sep)
RECURSIVE join(_, _)
join(lines, sep) ==
  IF lines = <<>> THEN <<>>
  ELSE IF Len(lines) = 1 THEN lines[1]
  ELSE lines[1] \o sep \o join(Tail(lines), sep)

\* text.replace(/\r\n/g, '\n').split('\n')
normalizedLines(t) == split(replaceCRLF(t))

(***************************************************************************)
(* commonPrefixLen / commonSuffixLen                                       *)
(***************************************************************************)
RECURSIVE prefixScan(_, _, _, _)
prefixScan(a, b, i, min) ==
  IF i < min /\ a[i + 1] = b[i + 1] THEN prefixScan(a, b, i + 1, min) ELSE i

commonPrefixLen(a, b) == prefixScan(a, b, 0, Min(Len(a), Len(b)))

RECURSIVE suffixScan(_, _, _, _)
suffixScan(a, b, i, min) ==
  IF i < min /\ a[Len(a) - i] = b[Len(b) - i] THEN suffixScan(a, b, i + 1, min) ELSE i

\* a variant of commonSuffixLen: the scan is not kept clear of the prefix
commonSuffixLenUnbounded(a, b, prefixLen) == suffixScan(a, b, 0, Min(Len(a), Len(b)))

commonSuffixLen(a, b, prefixLen) ==
  suffixScan(a, b, 0, Min(Len(a), Len(b)) - prefixLen)

(***************************************************************************)
(* myersMatchedIndices                                                     *)
(***************************************************************************)
\* the cap of the edit distance searched
MaxEditDistance == 500

\* caps in place of 500 that are small enough for the positional fallback to
\* run on texts of a few lines
SmallCaps == {0, 1, 2}

\* a variant of extendDiagonal: equal lines are not followed
extendDiagonalNone(a, b, x, y) == x

\* while (x < n && y < m && a[x] === b[y]) { x++; y++; }
RECURSIVE extendDiagonal(_, _, _, _)
extendDiagonal(a, b, x, y) ==
  IF x < Len(a) /\ y < Len(b) /\ a[x + 1] = b[y + 1]
  THEN extendDiagonal(a, b, x + 1, y + 1)
  ELSE x

\* a variant of cameFromInsertion: the insertion move is taken when the
\* k-1 neighbour reaches further
cameFromInsertionReversed(v, k, d, offset) ==
  k = -d \/ (k # d /\ v[k + offset - 1] > v[k + offset + 1])

\* Myers' rule: the move into diagonal k in round d is an insertion (from
\* diagonal k+1) when this holds, a deletion (from diagonal k-1) otherwise.
cameFromInsertion(v, k, d, offset) ==
  k = -d \/ (k # d /\ v[k + offset - 1] < v[k + offset + 1])

\* the loop over k of round d, from diagonal k on
RECURSIVE forwardK(_, _, _, _, _, _)
forwardK(a, b, d, k, v, offset) ==
  IF k > d THEN [v |-> v, found |-> FALSE]
  ELSE LET kOff == k + offset
           x0 == IF cameFromInsertion(v, k, d, offset) THEN v[kOff + 1] ELSE v[kOff - 1] + 1
           x == extendDiagonal(a, b, x0, x0 - k)
           y == x - k
           v2 == [v EXCEPT ![kOff] = x]
       IN  IF x >= Len(a) /\ y >= Len(b) THEN [v |-> v2, found |-> TRUE]
           ELSE forwardK(a, b, d, k + 2, v2, offset)

\* a variant of forwardD: the search gives up one round early
RECURSIVE forwardDShort(_, _, _, _, _, _)
forwardDShort(a, b, d, v, traces, maxD) ==
  IF d >= maxD THEN [editDist |-> -1, traces |-> traces]
  ELSE LET tr == Append(traces, v)
           r == forwardK(a, b, d, -d, v, maxD + 1)
       IN  IF r.found THEN [editDist |-> d, traces |-> tr]
           ELSE forwardDShort(a, b, d + 1, r.v, tr, maxD)

\* a variant of forwardD: the search runs one round more
RECURSIVE forwardDLong(_, _, _, _, _, _)
forwardDLong(a, b, d, v, traces, maxD) ==
  IF d > maxD + 1 THEN [editDist |-> -1, traces |-> traces]
  ELSE LET tr == Append(traces, v)
           r == forwardK(a, b, d, -d, v, maxD + 1)
       IN  IF r.found THEN [editDist |-> d, traces |-> tr]
           ELSE forwardDLong(a, b, d + 1, r.v, tr, maxD)

\* the loop over d: editDist (-1 when none within maxD) and the snapshots
RECURSIVE forwardD(_, _, _, _, _, _)
forwardD(a, b, d, v, traces, maxD) ==
  IF d > maxD THEN [editDist |-> -1, traces |-> traces]
  ELSE LET tr == Append(traces, v)
           r == forwardK(a, b, d, -d, v, maxD + 1)
       IN  IF r.found THEN [editDist |-> d, traces |-> tr]
           ELSE forwardD(a, b, d + 1, r.v, tr, maxD)

\* while (x > prevX && y > prevY) { x--; y--; matched.add(y); }
RECURSIVE diagonalBack(_, _, _, _)
diagonalBack(x, y, prevX, prevY) ==
  IF x > prevX /\ y > prevY THEN {y - 1} \cup diagonalBack(x - 1, y - 1, prevX, prevY)
  ELSE {}

RECURSIVE backtrack(_, _, _, _, _)
backtrack(d, x, y, traces, offset) ==
  IF d = 0 THEN diagonalBack(x, y, 0, 0)
  ELSE LET prev == traces[d + 1]
           k == x - y
           prevK == IF cameFromInsertion(prev, k, d, offset) THEN k + 1 ELSE k - 1
           prevX == prev[prevK + offset]
           prevY == prevX - prevK
       IN  diagonalBack(x, y, prevX, prevY) \cup backtrack(d - 1, prevX, prevY, traces, offset)

\* a variant of positionalMatches: a line is matched when the other sequence
\* holds it at any position
anywhereMatches(a, b) == {i \in 0..(Len(b) - 1) : \E j \in 1..Len(a) : a[j] = b[i + 1]}

\* a variant of positionalMatches: the fallback matches no line
noMatches(a, b) == {}

\* the fallback: position-based matching
positionalMatches(a, b) == {i \in 0..(Min(Len(a), Len(b)) - 1) : a[i + 1] = b[i + 1]}

\* a variant of myersMatchedWithin: lines are always matched by position
myersMatchedByPosition(a, b, cap) == {i \in 0..(Min(Len(a), Len(b)) - 1) : a[i + 1] = b[i + 1]}

\* the forward pass of myersMatchedIndices with the cap given: editDist and
\* one snapshot per round of the search
forwardPass(a, b, cap) ==
  LET maxD == Min(cap, Len(a) + Len(b))
  IN  forwardD(a, b, 0, [i \in 0..(2 * maxD + 2) |-> 0], <<>>, maxD)

\* myersMatchedIndices with the cap given
myersMatchedWithin(a, b, cap) ==
  LET n == Len(a)
      m == Len(b)
      maxD == Min(cap, n + m)
      offset == maxD + 1
      fwd == forwardPass(a, b, cap)
  IN  IF fwd.editDist < 0 THEN positionalMatches(a, b)
      ELSE backtrack(fwd.editDist, n, m, fwd.traces, offset)

myersMatchedIndices(a, b) == myersMatchedWithin(a, b, MaxEditDistance)

(***************************************************************************)
(* computeChangedLines and the grouping into blocks                        *)
(***************************************************************************)
\* the numbers from..to-1 that are in S, ascending
RECURSIVE ascending(_, _, _)
ascending(S, from, to) ==
  IF from >= to THEN <<>>
  ELSE (IF from \in S THEN <<from>> ELSE <<>>) \o ascending(S, from + 1, to)

\* while (top < minLen && origLines[top] === currLines[top]) top++;
RECURSIVE skipCommonPrefix(_, _, _, _)
skipCommonPrefix(origLines, currLines, top, minLen) ==
  IF top < minLen /\ origLines[top + 1] = currLines[top + 1]
  THEN skipCommonPrefix(origLines, currLines, top + 1, minLen)
  ELSE top

\* a variant of skipCommonSuffix: the suffix is not kept clear of the prefix
RECURSIVE skipCommonSuffixUnbounded(_, _, _, _, _)
skipCommonSuffixUnbounded(origLines, currLines, top, bottom, minLen) ==
  IF /\ bottom < minLen
     /\ origLines[Len(origLines) - bottom] = currLines[Len(currLines) - bottom]
  THEN skipCommonSuffixUnbounded(origLines, currLines, top, bottom + 1, minLen)
  ELSE bottom

\* while (bottom < minLen - top && origLines[length - 1 - bottom] === currLines[...]) bottom++;
RECURSIVE skipCommonSuffix(_, _, _, _, _)
skipCommonSuffix(origLines, currLines, top, bottom, minLen) ==
  IF /\ bottom < minLen - top
     /\ origLines[Len(origLines) - bottom] = currLines[Len(currLines) - bottom]
  THEN skipCommonSuffix(origLines, currLines, top, bottom + 1, minLen)
  ELSE bottom

\* the changed lines of the middle region, as indices into the middle region
changedInMiddle(origMiddle, currMiddle, cap) ==
  IF Len(origMiddle) = 0 THEN [i \in 1..Len(currMiddle) |-> i - 1]
  ELSE IF Len(currMiddle) = 0 THEN <<>>
  ELSE LET matched == myersMatchedWithin(origMiddle, currMiddle, cap)
       IN  ascending({i \in 0..(Len(currMiddle) - 1) : i \notin matched}, 0, Len(currMiddle))

\* a variant of toCurrentIndices: the indices are left relative to the middle
toMiddleIndices(changedM, top) == changedM

\* changed.push(top + i): indices of the middle region as indices of the document
toCurrentIndices(changedM, top) == [i \in 1..Len(changedM) |-> top + changedM[i]]

\* computeChangedLines after its fast path: trimming, search, indices
changedAfterTrim(originalText, currentText, cap) ==
  LET origLines == normalizedLines(originalText)
      currLines == normalizedLines(currentText)
      minLen == Min(Len(origLines), Len(currLines))
      top == skipCommonPrefix(origLines, currLines, 0, minLen)
      bottom == skipCommonSuffix(origLines, currLines, top, 0, minLen)
      origMiddle == slice(origLines, top, Len(origLines) - bottom)
      currMiddle == slice(currLines, top, Len(currLines) - bottom)
  IN  toCurrentIndices(changedInMiddle(origMiddle, currMiddle, cap), top)

\* a variant of computeChangedLinesWithin: an empty baseline text marks every
\* line before the texts are compared
computeChangedLinesEmptyBaseline(originalText, currentText, cap) ==
  IF originalText = <<>> THEN [i \in 1..Len(normalizedLines(currentText)) |-> i - 1]
  ELSE IF originalText = currentText THEN <<>>
  ELSE changedAfterTrim(originalText, currentText, cap)

\* computeChangedLines with the cap of the edit distance given
computeChangedLinesWithin(originalText, currentText, cap) ==
  IF originalText = currentText THEN <<>>
  ELSE changedAfterTrim(originalText, currentText, cap)

computeChangedLines(originalText, currentText) ==
  computeChangedLinesWithin(originalText, currentText, MaxEditDistance)

\* a variant of groupFrom: a line that follows the block's end starts a new block
RECURSIVE groupFromUnmerged(_, _, _, _)
groupFromUnmerged(changedLineNumbers, i, start, end) ==
  IF i > Len(changedLineNumbers) THEN <<[startLine |-> start, endLine |-> end]>>
  ELSE <<[startLine |-> start, endLine |-> end]>>
         \o groupFromUnmerged(changedLineNumbers, i + 1, changedLineNumbers[i], changedLineNumbers[i])

\* the blocks of consecutive changed lines (updateDecorationsForEditor)
RECURSIVE groupFrom(_, _, _, _)
groupFrom(changedLineNumbers, i, start, end) ==
  IF i > Len(changedLineNumbers) THEN <<[startLine |-> start, endLine |-> end]>>
  ELSE IF changedLineNumbers[i] = end + 1
       THEN groupFrom(changedLineNumbers, i + 1, start, changedLineNumbers[i])
       ELSE <<[startLine |-> start, endLine |-> end]>>
              \o groupFrom(changedLineNumbers, i + 1, changedLineNumbers[i], changedLineNumbers[i])

groupBlocks(changedLineNumbers) ==
  IF Len(changedLineNumbers) > 0
  THEN groupFrom(changedLineNumbers, 2, changedLineNumbers[1], changedLineNumbers[1])
  ELSE <<>>

(***************************************************************************)
(* undoBlock: the edit it builds                                           *)
(***************************************************************************)
\* a variant of nextEqual: the baseline is not scanned for the equal line
nextEqualNoScan(orig, line, oi) == oi

\* while (oi < orig.length && orig[oi] !== curr[ci]) oi++;
RECURSIVE nextEqual(_, _, _)
nextEqual(orig, line, oi) ==
  IF oi < Len(orig) /\ orig[oi + 1] # line THEN nextEqual(orig, line, oi + 1) ELSE oi

RECURSIVE mapFrom(_, _, _, _, _)
mapFrom(orig, curr, sorted, i, oi) ==
  IF i > Len(sorted) THEN <<>>
  ELSE LET ci == sorted[i]
           at == nextEqual(orig, curr[ci + 1], oi)
       IN  IF at < Len(orig) THEN <<<<ci, at>>>> \o mapFrom(orig, curr, sorted, i + 1, at + 1)
           ELSE mapFrom(orig, curr, sorted, i + 1, at)

\* the entries <<currIndex, origIndex>> of the Map, in its iteration order
buildMatchMapWithin(orig, curr, cap) ==
  IF Len(orig) = 0 \/ Len(curr) = 0 THEN <<>>
  ELSE mapFrom(orig, curr, ascending(myersMatchedWithin(orig, curr, cap), 0, Len(curr)), 1, 0)

buildMatchMap(orig, curr) == buildMatchMapWithin(orig, curr, MaxEditDistance)

\* for (const [ci, oi] of matchMap) if (ci < blockStartM) origStart = Math.max(origStart, oi + 1);
RECURSIVE origStartFrom(_, _, _, _)
origStartFrom(matchMap, i, blockStartM, origStart) ==
  IF i > Len(matchMap) THEN origStart
  ELSE origStartFrom(matchMap, i + 1, blockStartM,
                     IF matchMap[i][1] < blockStartM THEN Max(origStart, matchMap[i][2] + 1)
                     ELSE origStart)

\* a variant of origEndFrom: the first match at or after the block end
RECURSIVE origEndFromAtOrAfter(_, _, _, _)
origEndFromAtOrAfter(matchMap, i, blockEndM, origEnd) ==
  IF i > Len(matchMap) THEN origEnd
  ELSE IF matchMap[i][1] >= blockEndM THEN Min(origEnd, matchMap[i][2])
  ELSE origEndFromAtOrAfter(matchMap, i + 1, blockEndM, origEnd)

\* for (const [ci, oi] of matchMap) if (ci > blockEndM) { origEnd = Math.min(origEnd, oi); break; }
RECURSIVE origEndFrom(_, _, _, _)
origEndFrom(matchMap, i, blockEndM, origEnd) ==
  IF i > Len(matchMap) THEN origEnd
  ELSE IF matchMap[i][1] > blockEndM THEN Min(origEnd, matchMap[i][2])
  ELSE origEndFrom(matchMap, i + 1, blockEndM, origEnd)

NoEdit == [none |-> TRUE]

\* a variant of replacementText: no separator after the last line
replacementTextNoSeparator(origBlockLines, more) == join(origBlockLines, <<LF>>)

\* origBlockLines.join('\n') + (endLine + 1 < currLines.length ? '\n' : '')
replacementText(origBlockLines, more) ==
  join(origBlockLines, <<LF>>) \o (IF more THEN <<LF>> ELSE <<>>)

\* What undoBlock computes before it builds its edit: the lines, the trim,
\* the middle regions, the block in middle coordinates, whether it returns
\* early, the match map and the baseline range [origStart, origEnd).
undoPlan(origText, currText, startLine, endLine, cap) ==
  LET origLines == normalizedLines(origText)
      currLines == normalizedLines(currText)
      top == commonPrefixLen(origLines, currLines)
      bottom == commonSuffixLen(origLines, currLines, top)
      origMiddle == slice(origLines, top, Len(origLines) - bottom)
      currMiddle == slice(currLines, top, Len(currLines) - bottom)
      blockStartM == Max(0, startLine - top)
      blockEndM == Min(Len(currMiddle) - 1, endLine - top)
      matchMap == buildMatchMapWithin(origMiddle, currMiddle, cap)
  IN  [origLines |-> origLines, currLines |-> currLines, top |-> top, bottom |-> bottom,
       origMiddle |-> origMiddle, currMiddle |-> currMiddle,
       blockStartM |-> blockStartM, blockEndM |-> blockEndM,
       returns |-> (blockStartM > Len(currMiddle) - 1 \/ blockEndM < 0),
       matchMap |-> matchMap,
       origStart |-> origStartFrom(matchMap, 1, blockStartM, 0),
       origEnd |-> origEndFrom(matchMap, 1, blockEndM, Len(origMiddle))]

\* The WorkspaceEdit undoBlock builds from what it computed for the lines
\* startLine..endLine, or NoEdit when it returns before building one.
undoEditOf(plan, startLine, endLine) ==
  IF plan.returns THEN NoEdit
  ELSE LET currLines == plan.currLines
           origBlockLines == slice(plan.origMiddle, plan.origStart, plan.origEnd)
           more == endLine + 1 < Len(currLines)
           replaceStart == [line |-> startLine, character |-> 0]
           replaceEnd ==
             IF more THEN [line |-> endLine + 1, character |-> 0]
             ELSE [line |-> endLine,
                   character |-> IF endLine < Len(currLines)
                                 THEN Len(currLines[endLine + 1]) ELSE 0]
           newText == replacementText(origBlockLines, more)
       IN  [start |-> replaceStart, end |-> replaceEnd, newText |-> newText]

undoEditWithin(origText, currText, startLine, endLine, cap) ==
  undoEditOf(undoPlan(origText, currText, startLine, endLine, cap), startLine, endLine)

undoEdit(origText, currText, startLine, endLine) ==
  undoEditWithin(origText, currText, startLine, endLine, MaxEditDistance)

(***************************************************************************)
(* The editor's document: a text whose line breaks are all LF or all CRLF. *)
(* vscode.workspace.applyEdit replaces a range of it.                      *)
(***************************************************************************)
IsDocumentText(t) ==
  /\ \A i \in 1..Len(t) : t[i] = CR => (i < Len(t) /\ t[i + 1] = LF)
  /\ \/ \A i \in 1..Len(t) : t[i] = LF => (i > 1 /\ t[i - 1] = CR)
     \/ \A i \in 1..Len(t) : t[i] # CR

\* the document's end-of-line sequence
documentEol(t) == IF \E i \in 1..Len(t) : t[i] = CR THEN <<CR, LF>> ELSE <<LF>>

\* the lines of an inserted text: the editor breaks lines at CRLF, LF and CR
RECURSIVE replaceCR(_)
replaceCR(t) ==
  IF t = <<>> THEN <<>>
  ELSE <<IF t[1] = CR THEN LF ELSE t[1]>> \o replaceCR(Tail(t))

insertedLines(t) == split(replaceCR(replaceCRLF(t)))

\* TextDocument.validatePosition
validatePosition(lines, pos) ==
  IF pos.line >= Len(lines)
  THEN [line |-> Len(lines) - 1, character |-> Len(lines[Len(lines)])]
  ELSE [line |-> pos.line, character |-> Min(pos.character, Len(lines[pos.line + 1]))]

\* the document text after the edit is applied
applyEdit(text, edit) ==
  LET lines == normalizedLines(text)
      s == validatePosition(lines, edit.start)
      e == validatePosition(lines, edit.end)
      ins == insertedLines(edit.newText)
      headFragment == SubSeq(lines[s.line + 1], 1, s.character)
      tailFragment == SubSeq(lines[e.line + 1], e.character + 1, Len(lines[e.line + 1]))
      middle == IF Len(ins) = 1 THEN <<headFragment \o ins[1] \o tailFragment>>
                ELSE <<headFragment \o ins[1]>> \o SubSeq(ins, 2, Len(ins) - 1)
                       \o <<ins[Len(ins)] \o tailFragment>>
  IN  join(SubSeq(lines, 1, s.line) \o middle \o SubSeq(lines, e.line + 2, Len(lines)),
           documentEol(text))

(***************************************************************************)
(* The inputs of the diff harness.                                         *)
(***************************************************************************)
Letters == {"a", "b"}

\* the lines of the generated texts: the empty line and one line per letter
LineSet == {<<>>} \cup {<<c>> : c \in Letters}

LineSeqs == UNION {[1..n -> LineSet] : n \in 1..MaxLines}

GeneratedTexts == {join(ls, eol) : ls \in LineSeqs, eol \in {<<LF>>, <<CR, LF>>}}

RawTexts == UNION {[1..n -> {"a", CR, LF}] : n \in 0..MaxRawLen}

\* "one\ntwo\nthree\n"
ScenarioBaseline == <<"o", "n", "e", LF, "t", "w", "o", LF, "t", "h", "r", "e", "e", LF>>

\* "one\nTWO\nthree\nfour\n"
ScenarioCurrent ==
  <<"o", "n", "e", LF, "T", "W", "O", LF, "t", "h", "r", "e", "e", LF, "f", "o", "u", "r", LF>>

\* "one\ntwo\nthree\nfour\n"
ScenarioReverted ==
  <<"o", "n", "e", LF, "t", "w", "o", LF, "t", "h", "r", "e", "e", LF, "f", "o", "u", "r", LF>>

\* "a\nb\nc" and "a\nX\nc": the lines [a,b,c] and [a,X,c]
ExampleBaseline == <<"a", LF, "b", LF, "c">>

ExampleEdited == <<"a", LF, "X", LF, "c">>

\* "a\nc": the lines [a,c], the baseline of [a,b,c] with the line b inserted
InsertedBaseline == <<"a", LF, "c">>

Texts == GeneratedTexts \cup RawTexts
           \cup {ScenarioBaseline, ScenarioCurrent, ExampleBaseline, ExampleEdited,
                 InsertedBaseline}

NoRequest == [none |-> TRUE]

(***************************************************************************)
(* Uris, keys, and the bytes of TextEncoder / TextDecoder.                 *)
(***************************************************************************)
Uri(authority, path) == [authority |-> authority, path |-> path]

\* the files of the model; every one is an ssh:// uri
FileUris == {Uri(<<"h", "1">>, <<"/", "f">>)}

Authorities == {u.authority : u \in FileUris}

\* `${uri.authority}${uri.path}`
getKey(uri) == uri.authority \o uri.path

\* uri.toString()
toString(uri) == <<"s", "s", "h", ":", "/", "/">> \o uri.authority \o uri.path

\* a variant of startsWith: the prefix is the authority without the slash
startsWithAuthority(key, authority) ==
  Len(key) >= Len(authority) /\ SubSeq(key, 1, Len(authority)) = authority

\* key.startsWith(`${authority}/`)
startsWith(key, authority) ==
  LET prefix == authority \o <<"/">>
  IN  Len(key) >= Len(prefix) /\ SubSeq(key, 1, Len(prefix)) = prefix

\* the UTF-8 code of a character of the model's alphabet
charCode(c) == CASE c = LF -> 10 [] c = CR -> 13 [] c = "a" -> 97 [] c = "b" -> 98

codeChar(n) == CASE n = 10 -> LF [] n = 13 -> CR [] n = 97 -> "a" [] n = 98 -> "b"

\* new TextEncoder().encode(text)
encode(text) == [i \in 1..Len(text) |-> charCode(text[i])]

\* new TextDecoder().decode(bytes)
decode(bytes) == [i \in 1..Len(bytes) |-> codeChar(bytes[i])]

\* map.set(k, v)
put(map, k, v) == [x \in DOMAIN map \cup {k} |-> IF x = k THEN v ELSE map[x]]

\* map.delete(k) for every k of ks
without(map, ks) == [x \in DOMAIN map \ ks |-> map[x]]

\* the texts the user gives a document: "a", "b" and "a\nb"
DocTexts == {<<"a">>, <<"b">>, <<"a", LF, "b">>}

\* the contents a remote file can have when it is read
FileContents == {encode(t) : t \in DocTexts}

(***************************************************************************)
(* The operations of SSHQuickDiffManager on its maps.                      *)
(***************************************************************************)
\* a variant of keptContents: only the lines of the block are kept
keptBlockOnly(text, startLine, endLine) ==
  encode(join(slice(normalizedLines(text), startLine, endLine + 1), <<LF>>))

\* the baseline keepBlock stores for a document: its whole text
keptContents(text, startLine, endLine) == encode(text)

\* a variant of cacheOriginal: every read overwrites the baseline
cacheOriginalOverwrite(contents, uri, content) == put(contents, getKey(uri), content)

cacheOriginal(contents, uri, content) ==
  IF getKey(uri) \in DOMAIN contents THEN contents ELSE put(contents, getKey(uri), content)

\* a variant of blocksOf: the cached list is emptied, not recomputed
blocksOfNone(original, text) == <<>>

\* the blocks updateDecorationsForEditor caches for a document with a baseline
blocksOf(original, text) == groupBlocks(computeChangedLines(decode(original), text))

\* updateDecorationsForEditor for every editor of `editors`: the new cachedChangedRanges
decorate(cache, contents, docs, editors) ==
  LET tracked == {u \in editors : getKey(u) \in DOMAIN contents}
  IN  [dk \in DOMAIN cache \cup {toString(u) : u \in tracked} |->
         IF \E u \in tracked : toString(u) = dk
         THEN LET u == CHOOSE w \in tracked : toString(w) = dk
              IN  blocksOf(contents[getKey(u)], docs[u])
         ELSE cache[dk]]

updateDecorationsForEditor(cache, contents, docs, uri) == decorate(cache, contents, docs, {uri})

refreshDecorations(cache, contents, docs, editors, authority) ==
  decorate(cache, contents, docs, {u \in editors : u.authority = authority})

\* a variant of updateFileModifiedStatus: modified when the diff has changed lines
updateFileModifiedStatusByDiff(modified, contents, uri, text) ==
  LET key == getKey(uri)
  IN  IF key \notin DOMAIN contents THEN modified
      ELSE IF computeChangedLines(decode(contents[key]), text) # <<>> THEN modified \cup {key}
      ELSE modified \ {key}

\* updateFileModifiedStatus: the new modifiedFiles
updateFileModifiedStatus(modified, contents, uri, text) ==
  LET key == getKey(uri)
  IN  IF key \notin DOMAIN contents THEN modified
      ELSE LET isModified == decode(contents[key]) # text
               wasModified == key \in modified
           IN  IF isModified /\ ~wasModified THEN modified \cup {key}
               ELSE IF ~isModified /\ wasModified THEN modified \ {key}
               ELSE modified

\* setTimeout returns a handle that no pending timeout has
newHandle(pending) ==
  CHOOSE n \in 1..(Cardinality(pending) + 1) :
    /\ \A t \in pending : t.id # n
    /\ \A k \in 1..(n - 1) : \E t \in pending : t.id = k

\* clearTimeout(handle): the host drops the pending timeout of that handle
clearTimeout(pending, handle) == {t \in pending : t.id # handle}

\* a variant of scheduleUpdateDecorations: the existing timer is not cleared
scheduleWithoutClear(timers, pending, uri) ==
  LET key == toString(uri)
      handle == newHandle(pending)
  IN  [updateTimers |-> put(timers, key, handle),
       timeouts |-> pending \cup {[id |-> handle, docKey |-> key, live |-> TRUE]}]

\* scheduleUpdateDecorations: the new updateTimers and the host's new pending
\* timeouts.  A timeout holds its handle, the key its callback closes over,
\* and whether the document it closes over is still the open one.
scheduleUpdateDecorations(timers, pending, uri) ==
  LET key == toString(uri)
      cleared == IF key \in DOMAIN timers THEN clearTimeout(pending, timers[key]) ELSE pending
      handle == newHandle(cleared)
  IN  [updateTimers |-> put(timers, key, handle),
       timeouts |-> cleared \cup {[id |-> handle, docKey |-> key, live |-> TRUE]}]

\* the cached blocks of a document, none when there is no entry
getBlocks(cache, uri) == IF toString(uri) \in DOMAIN cache THEN cache[toString(uri)] ELSE <<>>

\* the baseline a reset gives a key: the open document's text, or none
resetContents(contents, docs, keys) ==
  LET open == {k \in keys : \E u \in DOMAIN docs : getKey(u) = k}
  IN  [k \in (DOMAIN contents \ keys) \cup open |->
         IF k \in open THEN encode(docs[CHOOSE u \in DOMAIN docs : getKey(u) = k])
         ELSE contents[k]]

(***************************************************************************)
(* State.                                                                  *)
(***************************************************************************)
VARIABLES
  originalContents,    \* Map key -> Uint8Array: the baselines
  modifiedFiles,       \* Set of keys
  cachedChangedRanges, \* Map uri.toString() -> blocks
  updateTimers,        \* Map uri.toString() -> handle of the pending timer
  timeouts,            \* the host's pending timeouts (setTimeout, not yet run or cleared)
  textDocuments,       \* vscode.workspace.textDocuments: uri -> text
  visibleTextEditors,  \* the uris of vscode.window.visibleTextEditors
  lastCall,            \* the last call or event handled, and what it returned
  originalText,        \* harness: the decoded baseline
  currentText,         \* harness: document.getText()
  pc,                  \* harness: "input", "diffed" or "undone"
  changedLineNumbers,  \* harness: computeChangedLines of the text before the undo
  request,             \* harness: the startLine and endLine undoBlock was called with
  edit,                \* harness: the edit undoBlock built, or NoEdit
  previousText,        \* harness: the document text before undoBlock
  maxDistance,         \* harness: the cap of the edit distance (500 in the program)
  blocks               \* harness: the blocks grouped from changedLineNumbers

manager == <<originalContents, modifiedFiles, cachedChangedRanges, updateTimers, timeouts,
             textDocuments, visibleTextEditors, lastCall>>

harness == <<originalText, currentText, pc, changedLineNumbers, request, edit, previousText,
             maxDistance, blocks>>

vars == <<manager, harness>>

Empty == [x \in {} |-> x]

\* the maps after the constructor
InitManager ==
  /\ originalContents = Empty
  /\ modifiedFiles = {}
  /\ cachedChangedRanges = Empty
  /\ updateTimers = Empty
  /\ timeouts = {}
  /\ textDocuments = Empty
  /\ visibleTextEditors = {}
  /\ lastCall = [op |-> "constructor"]

IdleHarness ==
  /\ originalText = <<>>
  /\ currentText = <<>>
  /\ pc = "idle"
  /\ changedLineNumbers = <<>>
  /\ request = NoRequest
  /\ edit = NoEdit
  /\ previousText = <<>>
  /\ maxDistance = MaxEditDistance
  /\ blocks = <<>>

Init == InitManager /\ IdleHarness

(***************************************************************************)
(* The manager's calls and event handlers.                                 *)
(***************************************************************************)
\* unregisterFileSystem; the SourceControl and its resource group are user
\* interface objects and are left out
unregisterFileSystem(authority) ==
  LET gone == {k \in DOMAIN originalContents : startsWith(k, authority)}
  IN  /\ originalContents' = without(originalContents, gone)
      /\ modifiedFiles' = modifiedFiles \ gone
      /\ cachedChangedRanges' = refreshDecorations(cachedChangedRanges, originalContents',
                                  textDocuments, visibleTextEditors, authority)
      /\ lastCall' = [op |-> "unregisterFileSystem", authority |-> authority]
      /\ UNCHANGED <<updateTimers, timeouts, textDocuments, visibleTextEditors>>

\* SSHFileSystem.readFile: the stream closes with `content`
readFile(uri, content) ==
  /\ originalContents' = cacheOriginal(originalContents, uri, content)
  /\ lastCall' = [op |-> "readFile", uri |-> uri, content |-> content]
  /\ UNCHANGED <<modifiedFiles, cachedChangedRanges, updateTimers, timeouts, textDocuments, visibleTextEditors>>

\* updateBaseline: the baseline of the file is overwritten
updateBaseline(uri, content) ==
  /\ originalContents' = put(originalContents, getKey(uri), content)
  /\ lastCall' = [op |-> "updateBaseline", uri |-> uri, content |-> content]
  /\ UNCHANGED <<modifiedFiles, cachedChangedRanges, updateTimers, timeouts, textDocuments,
                 visibleTextEditors>>

\* the editor opens the file: it reads it, then holds its text as a document
openTextDocument(uri, content) ==
  /\ uri \notin DOMAIN textDocuments
  /\ Cardinality(DOMAIN textDocuments) < MaxOpenDocuments
  /\ originalContents' = cacheOriginal(originalContents, uri, content)
  /\ textDocuments' = put(textDocuments, uri, decode(content))
  /\ lastCall' = [op |-> "readFile", uri |-> uri, content |-> content]
  /\ UNCHANGED <<modifiedFiles, cachedChangedRanges, updateTimers, timeouts,
                 visibleTextEditors>>

\* onDidChangeVisibleTextEditors(editors)
onDidChangeVisibleTextEditors(editors) ==
  /\ editors \subseteq DOMAIN textDocuments
  /\ editors # visibleTextEditors
  /\ visibleTextEditors' = editors
  /\ cachedChangedRanges' = decorate(cachedChangedRanges, originalContents, textDocuments, editors)
  /\ lastCall' = [op |-> "onDidChangeVisibleTextEditors"]
  /\ UNCHANGED <<originalContents, modifiedFiles, updateTimers, timeouts, textDocuments>>

\* the document is closed; its editor, if any, goes with it
closeTextDocument(uri) ==
  /\ uri \in DOMAIN textDocuments
  /\ textDocuments' = without(textDocuments, {uri})
  /\ visibleTextEditors' = visibleTextEditors \ {uri}
  /\ timeouts' = {[t EXCEPT !.live = t.live /\ t.docKey # toString(uri)] : t \in timeouts}
  /\ UNCHANGED updateTimers
  /\ cachedChangedRanges' =
       IF uri \in visibleTextEditors
       THEN decorate(cachedChangedRanges, originalContents, textDocuments', visibleTextEditors')
       ELSE cachedChangedRanges
  /\ lastCall' = [op |-> "closeTextDocument", uri |-> uri]
  /\ UNCHANGED <<originalContents, modifiedFiles>>

\* onDidChangeTextDocument: the document of `uri` now holds `text`
onDidChangeTextDocument(uri, text) ==
  /\ uri \in DOMAIN textDocuments
  /\ text # textDocuments[uri]
  /\ textDocuments' = put(textDocuments, uri, text)
  /\ updateTimers' = scheduleUpdateDecorations(updateTimers, timeouts, uri).updateTimers
  /\ timeouts' = scheduleUpdateDecorations(updateTimers, timeouts, uri).timeouts
  /\ Cardinality(timeouts') <= MaxTimeouts
  /\ modifiedFiles' = updateFileModifiedStatus(modifiedFiles, originalContents, uri, text)
  /\ lastCall' = [op |-> "onDidChangeTextDocument", uri |-> uri,
                  rescheduled |-> toString(uri) \in DOMAIN updateTimers]
  /\ UNCHANGED <<originalContents, cachedChangedRanges, visibleTextEditors>>

\* the host runs the pending timeout t: the callback of scheduleUpdateDecorations
updateTimerFires(t) ==
  /\ t \in timeouts
  /\ timeouts' = timeouts \ {t}
  /\ updateTimers' = without(updateTimers, {t.docKey})
  /\ cachedChangedRanges' =
       decorate(cachedChangedRanges, originalContents, textDocuments,
                {u \in visibleTextEditors : toString(u) = t.docKey /\ t.live})
  /\ lastCall' = [op |-> "updateTimer", docKey |-> t.docKey]
  /\ UNCHANGED <<originalContents, modifiedFiles, textDocuments,
                 visibleTextEditors>>

resetBaselines(authority) ==
  LET keys == {k \in DOMAIN originalContents : startsWith(k, authority)}
  IN  /\ originalContents' = resetContents(originalContents, textDocuments, keys)
      /\ modifiedFiles' = {k \in modifiedFiles : ~startsWith(k, authority)}
      /\ cachedChangedRanges' = refreshDecorations(cachedChangedRanges, originalContents',
                                  textDocuments, visibleTextEditors, authority)
      /\ lastCall' = [op |-> "resetBaselines", authority |-> authority]
      /\ UNCHANGED <<updateTimers, timeouts, textDocuments, visibleTextEditors>>

\* a variant of resetFileBaseline: the modified flag is left as it is
resetFileBaselineKeepFlag(uri) ==
  /\ originalContents' =
       IF uri \in DOMAIN textDocuments
       THEN put(originalContents, getKey(uri), encode(textDocuments[uri]))
       ELSE without(originalContents, {getKey(uri)})
  /\ modifiedFiles' = modifiedFiles
  /\ cachedChangedRanges' = refreshDecorations(cachedChangedRanges, originalContents',
                              textDocuments, visibleTextEditors, uri.authority)
  /\ lastCall' = [op |-> "resetFileBaseline", uri |-> uri]
  /\ UNCHANGED <<updateTimers, timeouts, textDocuments, visibleTextEditors>>

resetFileBaseline(uri) ==
  /\ originalContents' =
       IF uri \in DOMAIN textDocuments
       THEN put(originalContents, getKey(uri), encode(textDocuments[uri]))
       ELSE without(originalContents, {getKey(uri)})
  /\ modifiedFiles' = modifiedFiles \ {getKey(uri)}
  /\ cachedChangedRanges' = refreshDecorations(cachedChangedRanges, originalContents',
                              textDocuments, visibleTextEditors, uri.authority)
  /\ lastCall' = [op |-> "resetFileBaseline", uri |-> uri]
  /\ UNCHANGED <<updateTimers, timeouts, textDocuments, visibleTextEditors>>

keepBlock(uri, startLine, endLine) ==
  /\ lastCall' = [op |-> "keepBlock", uri |-> uri, startLine |-> startLine, endLine |-> endLine]
  /\ IF uri \notin DOMAIN textDocuments
     THEN UNCHANGED <<originalContents, modifiedFiles, cachedChangedRanges>>
     ELSE /\ originalContents' = put(originalContents, getKey(uri),
                                      keptContents(textDocuments[uri], startLine, endLine))
          /\ modifiedFiles' = modifiedFiles \ {getKey(uri)}
          /\ cachedChangedRanges' = refreshDecorations(cachedChangedRanges, originalContents',
                                      textDocuments, visibleTextEditors, uri.authority)
  /\ UNCHANGED <<updateTimers, timeouts, textDocuments, visibleTextEditors>>

\* what undoBlock does once it has built its edit, `text` the document after it
undoBlockApply(uri, built, text, applied) ==
  /\ Len(normalizedLines(text)) <= MaxDocLines
  /\ lastCall' = [op |-> "undoBlock", uri |-> uri, edit |-> built # NoEdit,
                  applied |-> (built # NoEdit /\ applied), returned |-> "undefined"]
  /\ IF built # NoEdit /\ applied
     THEN /\ textDocuments' = put(textDocuments, uri, text)
          /\ updateTimers' = scheduleUpdateDecorations(updateTimers, timeouts, uri).updateTimers
          /\ timeouts' = scheduleUpdateDecorations(updateTimers, timeouts, uri).timeouts
          /\ Cardinality(timeouts') <= MaxTimeouts
          /\ modifiedFiles' = updateFileModifiedStatus(modifiedFiles, originalContents, uri, text)
     ELSE UNCHANGED <<textDocuments, updateTimers, timeouts, modifiedFiles>>
  /\ UNCHANGED <<originalContents, cachedChangedRanges, visibleTextEditors>>

\* undoBlock; `applied` is what vscode.workspace.applyEdit resolves to
undoBlock(uri, startLine, endLine, applied) ==
  \E built \in {IF getKey(uri) \in DOMAIN originalContents /\ uri \in DOMAIN textDocuments
                 THEN undoEdit(decode(originalContents[getKey(uri)]), textDocuments[uri],
                               startLine, endLine)
                 ELSE NoEdit} :
    undoBlockApply(uri, built,
                   IF built = NoEdit THEN <<>> ELSE applyEdit(textDocuments[uri], built),
                   applied)

\* dispose: every timer of updateTimers is cleared and the maps are emptied;
\* the listeners are disposed with the manager, so nothing is handled after it
dispose ==
  /\ timeouts' = {t \in timeouts : \A k \in DOMAIN updateTimers : updateTimers[k] # t.id}
  /\ updateTimers' = Empty
  /\ originalContents' = Empty
  /\ modifiedFiles' = {}
  /\ cachedChangedRanges' = Empty
  /\ lastCall' = [op |-> "dispose"]
  /\ UNCHANGED <<textDocuments, visibleTextEditors>>

LineNumbers == 0..MaxDocLines

\* the calls and events of a manager that tracks the files `uris`, whose
\* remote contents are of `contents` and whose documents hold texts of `texts`
Calls(uris, contents, texts) ==
  /\ lastCall.op # "dispose"
  /\ \/ \E authority \in {u.authority : u \in uris} : unregisterFileSystem(authority)
     \/ \E uri \in uris, content \in contents : readFile(uri, content)
     \/ \E uri \in uris, content \in contents : openTextDocument(uri, content)
     \/ \E editors \in SUBSET uris : onDidChangeVisibleTextEditors(editors)
     \/ \E uri \in uris : closeTextDocument(uri)
     \/ \E uri \in uris, text \in texts : onDidChangeTextDocument(uri, text)
     \/ \E t \in timeouts : updateTimerFires(t)
     \/ \E authority \in {u.authority : u \in uris} : resetBaselines(authority)
     \/ \E uri \in uris : resetFileBaseline(uri)
     \/ \E uri \in uris, startLine \in LineNumbers, endLine \in LineNumbers :
          startLine <= endLine /\ keepBlock(uri, startLine, endLine)
     \/ \E uri \in uris, startLine \in LineNumbers, endLine \in LineNumbers, applied \in BOOLEAN :
          startLine <= endLine /\ undoBlock(uri, startLine, endLine, applied)
     \/ dispose

\* the events of the editor alone: documents open, change, are shown and
\* close, and timers run
EditorEvents(uris, contents, texts) ==
  /\ lastCall.op # "dispose"
  /\ \/ \E uri \in uris, content \in contents : openTextDocument(uri, content)
     \/ \E editors \in SUBSET uris : onDidChangeVisibleTextEditors(editors)
     \/ \E uri \in uris : closeTextDocument(uri)
     \/ \E uri \in uris, text \in texts : onDidChangeTextDocument(uri, text)
     \/ \E t \in timeouts : updateTimerFires(t)
     \/ dispose

Next == UNCHANGED harness /\ Calls(FileUris, FileContents, DocTexts)

Spec == Init /\ [][Next]_vars

\* the step of the host running a pending timeout: setTimeout(..., 150) fires
\* unless cleared; among the steps of Next these are the steps of updateTimerFires
TimerStep ==
  \E t \in timeouts :
    /\ lastCall.op # "dispose"
    /\ timeouts' = timeouts \ {t}
    /\ lastCall' = [op |-> "updateTimer", docKey |-> t.docKey]

\* the manager with its timers eventually run
SpecLive == Init /\ [][Next]_vars /\ WF_<<timeouts, lastCall>>(TimerStep)

(***************************************************************************)
(* The manager tracking two files of two authorities, with short texts,    *)
(* under the events of the editor.                                         *)
(***************************************************************************)
KeyUris == {Uri(<<"h", "1">>, <<"/", "f">>), Uri(<<"h", "2">>, <<"/", "f">>)}

KeyTexts == {<<"a">>, <<"b">>}

KeyContents == {encode(t) : t \in KeyTexts}

NextKeys == UNCHANGED harness /\ EditorEvents(KeyUris, KeyContents, KeyTexts)

SpecKeys == Init /\ [][NextKeys]_vars

(***************************************************************************)
(* The diff harness: computeChangedLines applied to a baseline text and a  *)
(* current text, then undoBlock for a range of lines, its edit applied.    *)
(***************************************************************************)
\* the harness before the diff, for texts of `texts` and a cap of `caps`
InitHarness(texts, caps) ==
  /\ InitManager
  /\ originalText \in texts
  /\ currentText \in texts
  /\ maxDistance \in caps
  /\ pc = "input"
  /\ changedLineNumbers = <<>>
  /\ blocks = <<>>
  /\ request = NoRequest
  /\ edit = NoEdit
  /\ previousText = <<>>

InitDiff == InitHarness(Texts, {MaxEditDistance})

\* updateDecorationsForEditor: the changed lines, then their blocks
DiffStep ==
  /\ pc = "input"
  /\ changedLineNumbers' = computeChangedLinesWithin(originalText, currentText, maxDistance)
  /\ blocks' = groupBlocks(changedLineNumbers')
  /\ pc' = "diffed"
  /\ UNCHANGED <<originalText, currentText, request, edit, previousText, maxDistance>>

UndoStep(startLine, endLine) ==
  /\ pc = "diffed"
  /\ IsDocumentText(currentText)
  /\ request' = [startLine |-> startLine, endLine |-> endLine]
  /\ edit' = undoEditWithin(originalText, currentText, startLine, endLine, maxDistance)
  /\ currentText' = IF edit' = NoEdit THEN currentText ELSE applyEdit(currentText, edit')
  /\ previousText' = currentText
  /\ pc' = "undone"
  /\ UNCHANGED <<originalText, changedLineNumbers, maxDistance, blocks>>

NextDiff ==
  /\ UNCHANGED manager
  /\ \/ DiffStep
     \/ \E startLine \in 0..Len(normalizedLines(currentText)) :
          \E endLine \in startLine..Len(normalizedLines(currentText)) :
            UndoStep(startLine, endLine)

SpecDiff == InitDiff /\ [][NextDiff]_vars

(***************************************************************************)
(* The diff alone, with the cap of the edit distance either the program's  *)
(* or scaled down, so that texts of a few lines reach the positional       *)
(* fallback.                                                               *)
(***************************************************************************)
InitCapped == InitHarness(Texts, SmallCaps \cup {MaxEditDistance})

NextCapped == UNCHANGED manager /\ DiffStep

SpecCapped == InitCapped /\ [][NextCapped]_vars

(***************************************************************************)
(* The baseline store with three files, two of one authority and one of an *)
(* authority that the first is a prefix of, under the operations on the    *)
(* store and the edits of open documents; no editor is shown, documents    *)
(* stay open and the timers stay pending.                                  *)
(***************************************************************************)
StoreUris ==
  {Uri(<<"h">>, <<"/", "f">>), Uri(<<"h">>, <<"/", "g">>), Uri(<<"h", "1">>, <<"/", "f">>)}

\* the lines a block is given with: the documents of the store hold one line
StoreLines == {0}

StoreCalls(uris, contents, texts) ==
  \/ \E uri \in uris, content \in contents : readFile(uri, content)
  \/ \E uri \in uris, content \in contents : updateBaseline(uri, content)
  \/ \E uri \in uris, content \in contents : openTextDocument(uri, content)
  \/ \E uri \in uris, text \in texts : onDidChangeTextDocument(uri, text)
  \/ \E authority \in {u.authority : u \in uris} : unregisterFileSystem(authority)
  \/ \E authority \in {u.authority : u \in uris} : resetBaselines(authority)
  \/ \E uri \in uris : resetFileBaseline(uri)
  \/ \E uri \in uris, line \in StoreLines : keepBlock(uri, line, line)
  \/ \E uri \in uris, line \in StoreLines, applied \in BOOLEAN :
       undoBlock(uri, line, line, applied)

NextStore == UNCHANGED harness /\ StoreCalls(StoreUris, KeyContents, KeyTexts)

SpecStore == Init /\ [][NextStore]_vars

(***************************************************************************)
(* The revert loop of rejectChangeAtCursor: the blocks are recomputed, the *)
(* user rejects one of them, undoBlock's edit is applied, and the blocks   *)
(* are recomputed from the new text.                                       *)
(***************************************************************************)
\* the buffer of an editor has one end-of-line sequence
InitRevert ==
  /\ InitHarness(Texts, SmallCaps \cup {MaxEditDistance})
  /\ IsDocumentText(currentText)

\* updateDecorationsForEditor, first and after every revert
RecomputeStep ==
  /\ pc \in {"input", "undone"}
  /\ changedLineNumbers' = computeChangedLinesWithin(originalText, currentText, maxDistance)
  /\ blocks' = groupBlocks(changedLineNumbers')
  /\ pc' = "diffed"
  /\ UNCHANGED <<originalText, currentText, request, edit, previousText, maxDistance>>

\* rejectChangeAtCursor with the cursor in one of the cached blocks
RejectStep ==
  /\ pc = "diffed"
  /\ \E i \in 1..Len(blocks) : UndoStep(blocks[i].startLine, blocks[i].endLine)

NextRevert == UNCHANGED manager /\ (RecomputeStep \/ RejectStep)

\* a step of the loop: RecomputeStep can be taken whenever the blocks are
\* not those of the text, RejectStep whenever there is a block
RevertProgress ==
  \/ pc \in {"input", "undone"} /\ pc' = "diffed"
  \/ pc = "diffed" /\ blocks # <<>> /\ pc' = "undone"

\* the user goes on rejecting as long as there is a block
SpecRevert == InitRevert /\ [][NextRevert]_vars /\ WF_pc(RevertProgress)

(***************************************************************************)
(* The grouping on its own: any ascending list of line numbers is grouped  *)
(* into blocks as updateDecorationsForEditor groups its changed lines.     *)
(***************************************************************************)
ChangedLineLists == {ascending(S, 0, MaxLineNumber + 1) : S \in SUBSET (0..MaxLineNumber)}

InitBlocks ==
  /\ InitManager
  /\ changedLineNumbers \in ChangedLineLists
  /\ pc = "lines"
  /\ blocks = <<>>
  /\ originalText = <<>>
  /\ currentText = <<>>
  /\ maxDistance = MaxEditDistance
  /\ request = NoRequest
  /\ edit = NoEdit
  /\ previousText = <<>>

GroupStep ==
  /\ pc = "lines"
  /\ blocks' = groupBlocks(changedLineNumbers)
  /\ pc' = "grouped"
  /\ UNCHANGED <<originalText, currentText, changedLineNumbers, request, edit, previousText,
                 maxDistance>>

NextBlocks == UNCHANGED manager /\ GroupStep

SpecBlocks == InitBlocks /\ [][NextBlocks]_vars

(***************************************************************************)
(* Helpers of the properties.                                              *)
(***************************************************************************)
Range(s) == {s[i] : i \in 1..Len(s)}

\* the requested range is one of the blocks of the diff
RequestIsBlock ==
  /\ request # NoRequest
  /\ \E i \in 1..Len(groupBlocks(changedLineNumbers)) : groupBlocks(changedLineNumbers)[i] = request

RequestedLines == IF request = NoRequest THEN {} ELSE request.startLine..request.endLine

\* the changed lines of the document as it is now
ChangedNow == Range(computeChangedLines(originalText, currentText))

\* c is a subsequence of o
RECURSIVE IsSubsequence(_, _)
IsSubsequence(c, o) ==
  IF c = <<>> THEN TRUE
  ELSE IF o = <<>> THEN FALSE
  ELSE IF c[1] = o[1] THEN IsSubsequence(Tail(c), Tail(o))
  ELSE IsSubsequence(c, Tail(o))

(***************************************************************************)
(* C1.  Revert round trip: after the edit of undoBlock for a block {s,e}   *)
(* of the diff is applied, the diff against the same baseline has no index *)
(* in s..e and no changed line that was not a changed line outside the     *)
(* block before.                                                           *)
(***************************************************************************)
C1_RevertRoundTrip ==
  (pc = "undone" /\ RequestIsBlock) =>
    /\ ChangedNow \cap RequestedLines = {}
    /\ ChangedNow \subseteq (Range(changedLineNumbers) \ RequestedLines)

(***************************************************************************)
(* C2.  End to end: baseline "one\ntwo\nthree\n" and current               *)
(* "one\nTWO\nthree\nfour\n" give the changed lines 1 and 3 and the blocks *)
(* {1,1} and {3,3}; undoBlock for {1,1} gives "one\ntwo\nthree\nfour\n",   *)
(* whose changed lines against the same baseline are exactly line 3.       *)
(***************************************************************************)
C2_EndToEnd ==
  /\ (pc = "diffed" /\ originalText = ScenarioBaseline /\ currentText = ScenarioCurrent) =>
       /\ changedLineNumbers = <<1, 3>>
       /\ groupBlocks(changedLineNumbers) =
            <<[startLine |-> 1, endLine |-> 1], [startLine |-> 3, endLine |-> 3]>>
  /\ (/\ pc = "undone" /\ originalText = ScenarioBaseline /\ previousText = ScenarioCurrent
      /\ request = [startLine |-> 1, endLine |-> 1]) =>
       /\ changedLineNumbers = <<1, 3>>
       /\ currentText = ScenarioReverted
       /\ computeChangedLines(originalText, currentText) = <<3>>

C2_Witness ==
  /\ pc = "undone" /\ originalText = ScenarioBaseline /\ previousText = ScenarioCurrent
  /\ request = [startLine |-> 1, endLine |-> 1]
  /\ edit # NoEdit

(***************************************************************************)
(* C3.  The ChangedLineSet is empty if and only if the two texts are equal *)
(* after CRLF is reduced to LF.                                            *)
(***************************************************************************)
C3_EmptyIffEqual ==
  pc = "diffed" =>
    (changedLineNumbers = <<>> <=> replaceCRLF(originalText) = replaceCRLF(currentText))

(***************************************************************************)
(* C3, amended.  Texts that are equal after CRLF is reduced to LF give the *)
(* empty set, and so does every current text whose lines are, in order,    *)
(* lines of the baseline (lines were only deleted): the set is empty       *)
(* exactly when the current lines are a subsequence of the baseline lines. *)
(* With a cap that the edit distance exceeds, an empty set still implies   *)
(* that the current lines are a subsequence of the baseline lines.         *)
(***************************************************************************)
C3_EmptyIffSubsequence ==
  pc = "diffed" =>
    LET origLines == normalizedLines(originalText)
        currLines == normalizedLines(currentText)
    IN  /\ replaceCRLF(originalText) = replaceCRLF(currentText) => changedLineNumbers = <<>>
        /\ changedLineNumbers = <<>> <=> IsSubsequence(currLines, origLines)
        /\ \A cap \in SmallCaps :
             LET changed == computeChangedLinesWithin(originalText, currentText, cap)
             IN  /\ replaceCRLF(originalText) = replaceCRLF(currentText) => changed = <<>>
                 /\ changed = <<>> => IsSubsequence(currLines, origLines)

C3_Witness ==
  /\ pc = "diffed"
  /\ changedLineNumbers = <<>>
  /\ replaceCRLF(originalText) # replaceCRLF(currentText)

(***************************************************************************)
(* C9.  undoBlock for a range that holds no changed line builds no edit    *)
(* and leaves the text as it is.                                           *)
(***************************************************************************)
C9_StaleRangeIsNoOp ==
  (pc = "undone" /\ Range(changedLineNumbers) \cap RequestedLines = {}) =>
    (edit = NoEdit /\ currentText = previousText)

(***************************************************************************)
(* Helpers of the properties of the manager.                               *)
(***************************************************************************)
HasBaseline(uri) == getKey(uri) \in DOMAIN originalContents

IsOpen(uri) == uri \in DOMAIN textDocuments

\* the decoded baseline of a file that has one
BaselineText(uri) == decode(originalContents[getKey(uri)])

\* the changed lines of an open document with a baseline
ChangedLinesOf(uri) == computeChangedLines(BaselineText(uri), textDocuments[uri])

\* isModified: the file is in the set behind the "M" badge
isModified(uri) == getKey(uri) \in modifiedFiles

\* the last thing handled was a change notification of the document of uri
ChangeNotified(uri) ==
  \/ lastCall.op = "onDidChangeTextDocument" /\ lastCall.uri = uri
  \/ lastCall.op = "undoBlock" /\ lastCall.uri = uri /\ lastCall.applied

(***************************************************************************)
(* C4.  For every open file with a baseline, isModified holds if and only  *)
(* if the diff of the baseline and the current text has changed lines.     *)
(***************************************************************************)
C4_ModifiedIffChanged ==
  \A uri \in FileUris :
    (HasBaseline(uri) /\ IsOpen(uri)) => (isModified(uri) <=> ChangedLinesOf(uri) # <<>>)

(***************************************************************************)
(* C4, amended.  After every change notification of a document with a      *)
(* baseline, isModified holds if and only if the decoded baseline and the  *)
(* current text differ as strings; changed lines then imply isModified,    *)
(* but not the other way round (a text with lines deleted is modified and  *)
(* has no changed line).                                                   *)
(***************************************************************************)
C4_ModifiedIffTextDiffers ==
  \A uri \in FileUris :
    (ChangeNotified(uri) /\ HasBaseline(uri) /\ IsOpen(uri)) =>
      /\ isModified(uri) <=> BaselineText(uri) # textDocuments[uri]
      /\ ChangedLinesOf(uri) # <<>> => isModified(uri)

C4_Witness ==
  \E uri \in FileUris :
    /\ ChangeNotified(uri) /\ HasBaseline(uri) /\ IsOpen(uri)
    /\ isModified(uri)
    /\ ChangedLinesOf(uri) = <<>>

(***************************************************************************)
(* C5.  cacheOriginal is first-write-wins: a read of a file without a      *)
(* baseline stores the content read and changes no other entry; a read of  *)
(* a file with a baseline leaves the whole store unchanged, so until a     *)
(* commit, reset or evict the baseline stays the content first captured.   *)
(***************************************************************************)
C5_FirstWriteWins ==
  [][lastCall'.op = "readFile" =>
       LET key == getKey(lastCall'.uri)
       IN  IF key \in DOMAIN originalContents
           THEN originalContents' = originalContents
           ELSE originalContents' = put(originalContents, key, lastCall'.content)]_vars

C5_Witness ==
  /\ lastCall.op = "readFile"
  /\ HasBaseline(lastCall.uri)
  /\ originalContents[getKey(lastCall.uri)] # lastCall.content

C7_EvictRemovesAll ==
  lastCall.op = "unregisterFileSystem" =>
    \A uri \in FileUris :
      uri.authority = lastCall.authority =>
        /\ ~HasBaseline(uri)
        /\ ~isModified(uri)
        /\ getBlocks(cachedChangedRanges, uri) = <<>>

(***************************************************************************)
(* C8.  A file without a baseline has no blocks, and undoBlock on it       *)
(* builds no edit and applies none.                                        *)
(***************************************************************************)
C8_MissingBaselineIsNoOp ==
  /\ \A uri \in FileUris : ~HasBaseline(uri) => getBlocks(cachedChangedRanges, uri) = <<>>
  /\ (lastCall.op = "undoBlock" /\ ~HasBaseline(lastCall.uri)) =>
       (~lastCall.edit /\ ~lastCall.applied)

(***************************************************************************)
(* C10.  When applyEdit rejects the edit, undoBlock returns a result that  *)
(* differs from what it returns when the edit was applied (undefined).     *)
(***************************************************************************)
C10_FailureSurfaced ==
  (lastCall.op = "undoBlock" /\ lastCall.edit /\ ~lastCall.applied) =>
    lastCall.returned # "undefined"

(***************************************************************************)
(* Helpers of the properties of the diff.                                  *)
(***************************************************************************)
\* the lines of `lines` whose 0-based index is not in S, in order
RECURSIVE withoutLines(_, _, _)
withoutLines(lines, S, i) ==
  IF i >= Len(lines) THEN <<>>
  ELSE (IF i \in S THEN <<>> ELSE <<lines[i + 1]>>) \o withoutLines(lines, S, i + 1)

OrigLines == normalizedLines(originalText)

CurrLines == normalizedLines(currentText)

\* the current lines the diff left unmarked
UnchangedLines == withoutLines(CurrLines, Range(changedLineNumbers), 0)

(***************************************************************************)
(* C11.  Insertion-only: when the current lines are the baseline lines     *)
(* with lines inserted (at most maxD of them), the diff marks exactly the  *)
(* inserted lines: as many indices as lines were inserted, and the current *)
(* lines without the marked ones are the baseline lines.                   *)
(***************************************************************************)
C11_InsertionOnly ==
  (pc = "diffed" /\ IsSubsequence(OrigLines, CurrLines)
     /\ Len(CurrLines) - Len(OrigLines) <= maxDistance) =>
    /\ Len(changedLineNumbers) = Len(CurrLines) - Len(OrigLines)
    /\ UnchangedLines = OrigLines

\* lines were inserted at both ends of a baseline, so the search runs
C11_Witness ==
  /\ pc = "diffed" /\ IsSubsequence(OrigLines, CurrLines)
  /\ Len(CurrLines) = Len(OrigLines) + 2
  /\ Len(CurrLines) - Len(OrigLines) <= maxDistance
  /\ changedLineNumbers = <<0, 2>>

(***************************************************************************)
(* C12.  Deletion-only: when the current lines are the baseline lines with *)
(* any number of lines deleted, the diff returns the empty set.            *)
(***************************************************************************)
C12_DeletionOnly ==
  (pc = "diffed" /\ IsSubsequence(CurrLines, OrigLines)) => changedLineNumbers = <<>>

(***************************************************************************)
(* C12, amended.  When the current lines are the baseline lines with lines *)
(* deleted and the number of deleted lines is at most the cap of the edit  *)
(* distance, the diff returns the empty set.  With more deleted lines the  *)
(* positional fallback runs, and it can mark lines that were kept.         *)
(***************************************************************************)
C12_DeletionOnlyWithinCap ==
  (pc = "diffed" /\ IsSubsequence(CurrLines, OrigLines)
     /\ Len(OrigLines) - Len(CurrLines) <= maxDistance) =>
    changedLineNumbers = <<>>

\* as many lines deleted as the cap allows, around a line that was kept
C12_Witness ==
  /\ pc = "diffed" /\ IsSubsequence(CurrLines, OrigLines)
  /\ Len(OrigLines) - Len(CurrLines) = maxDistance
  /\ maxDistance = 2
  /\ OrigLines[1] # CurrLines[1]
  /\ OrigLines[Len(OrigLines)] # CurrLines[Len(CurrLines)]
  /\ changedLineNumbers = <<>>

\* the current lines are the baseline lines with line i replaced by another
SingleLineEdit(i) ==
  /\ Len(CurrLines) = Len(OrigLines)
  /\ i \in 0..(Len(CurrLines) - 1)
  /\ \A j \in 0..(Len(CurrLines) - 1) : (CurrLines[j + 1] = OrigLines[j + 1]) <=> (j # i)

(***************************************************************************)
(* C13.  Single-line edit: when the current lines are the baseline lines   *)
(* with line i replaced by a different line, the changed lines are {i} and *)
(* the only block is {i,i}; [a,b,c] against [a,X,c] gives {1} and {1,1}.   *)
(***************************************************************************)
C13_SingleLineEdit ==
  pc = "diffed" =>
    /\ \A i \in 0..(Len(CurrLines) - 1) :
         SingleLineEdit(i) =>
           /\ changedLineNumbers = <<i>>
           /\ blocks = <<[startLine |-> i, endLine |-> i]>>
    /\ (originalText = ExampleBaseline /\ currentText = ExampleEdited) =>
         /\ changedLineNumbers = <<1>>
         /\ blocks = <<[startLine |-> 1, endLine |-> 1]>>

C13_Witness ==
  /\ pc = "diffed"
  /\ originalText = ExampleBaseline /\ currentText = ExampleEdited
  /\ SingleLineEdit(1)
  /\ blocks = <<[startLine |-> 1, endLine |-> 1]>>

(***************************************************************************)
(* C14.  Identity: the diff of a text with itself is the empty set, for    *)
(* every text, the empty text included.                                    *)
(***************************************************************************)
C14_Identity ==
  (pc = "diffed" /\ originalText = currentText) =>
    (changedLineNumbers = <<>> /\ blocks = <<>>)

C14_Witness ==
  /\ pc = "diffed"
  /\ originalText = <<>> /\ currentText = <<>>
  /\ changedLineNumbers = <<>>

\* the lines a list of blocks covers
BlockLines(bs) == UNION {bs[i].startLine..bs[i].endLine : i \in 1..Len(bs)}

(***************************************************************************)
(* C15.  Block extraction: the blocks of any changed lines are sorted by   *)
(* startLine, each has startLine <= endLine, each next block starts after  *)
(* endLine + 1 of the block before it, and together they cover exactly the *)
(* changed lines; the lines 2,3,4,7 give exactly the blocks {2,4}, {7,7}.  *)
(***************************************************************************)
C15_BlockExtraction ==
  pc \in {"grouped", "diffed"} =>
    /\ \A i \in 1..Len(blocks) : blocks[i].startLine <= blocks[i].endLine
    /\ \A i \in 1..(Len(blocks) - 1) : blocks[i + 1].startLine > blocks[i].endLine + 1
    /\ BlockLines(blocks) = Range(changedLineNumbers)
    /\ changedLineNumbers = <<2, 3, 4, 7>> =>
         blocks = <<[startLine |-> 2, endLine |-> 4], [startLine |-> 7, endLine |-> 7]>>

C15_Witness ==
  /\ pc = "grouped"
  /\ changedLineNumbers = <<2, 3, 4, 7>>
  /\ Len(blocks) = 2

\* the middle regions computeChangedLines hands to myersMatchedIndices
Middles ==
  LET minLen == Min(Len(OrigLines), Len(CurrLines))
      top == skipCommonPrefix(OrigLines, CurrLines, 0, minLen)
      bottom == skipCommonSuffix(OrigLines, CurrLines, top, 0, minLen)
  IN  [orig |-> slice(OrigLines, top, Len(OrigLines) - bottom),
       curr |-> slice(CurrLines, top, Len(CurrLines) - bottom)]

\* the diff reached the search of myersMatchedIndices
SearchRan ==
  /\ pc = "diffed" /\ originalText # currentText
  /\ Len(Middles.orig) > 0 /\ Len(Middles.curr) > 0

\* maxD of that search
SearchMaxD == Min(maxDistance, Len(Middles.orig) + Len(Middles.curr))

\* the rounds of that search: one snapshot is pushed per round
SearchRounds == Len(forwardPass(Middles.orig, Middles.curr, maxDistance).traces)

SearchGaveUp == forwardPass(Middles.orig, Middles.curr, maxDistance).editDist < 0

RECURSIVE lcsLen(_, _)
lcsLen(a, b) ==
  IF a = <<>> \/ b = <<>> THEN 0
  ELSE IF Head(a) = Head(b) THEN 1 + lcsLen(Tail(a), Tail(b))
  ELSE Max(lcsLen(Tail(a), b), lcsLen(a, Tail(b)))

\* the edit distance (insertions and deletions) of the middle regions
MiddleEditDistanceOf(origMiddle, currMiddle) ==
  Len(origMiddle) + Len(currMiddle) - 2 * lcsLen(origMiddle, currMiddle)

MiddleEditDistance == MiddleEditDistanceOf(Middles.orig, Middles.curr)

(***************************************************************************)
(* C19.  Minimality: whenever the edit distance of the middle regions is   *)
(* at most maxD, the number of changed lines is the number of current      *)
(* lines minus the length of a longest common subsequence of the baseline  *)
(* lines and the current lines.                                            *)
(***************************************************************************)
C19_Minimality ==
  (pc = "diffed" /\ MiddleEditDistance <= SearchMaxD) =>
    Len(changedLineNumbers) = Len(CurrLines) - lcsLen(OrigLines, CurrLines)

\* the search ran, found an edit script of two edits and matched a line
C19_Witness ==
  /\ SearchRan /\ ~SearchGaveUp
  /\ MiddleEditDistance = 2 /\ SearchMaxD = 2
  /\ Len(Middles.curr) = 2
  /\ Len(changedLineNumbers) = 1

(***************************************************************************)
(* C20.  Alignment soundness: after the search and after the positional    *)
(* fallback alike, the current lines that are not changed lines, in order, *)
(* are a subsequence of the baseline lines.                                *)
(***************************************************************************)
C20_AlignmentSound ==
  pc = "diffed" => IsSubsequence(UnchangedLines, OrigLines)

\* the fallback ran and left a line of the middle region unmarked
C20_Witness ==
  /\ SearchRan /\ SearchGaveUp
  /\ Len(changedLineNumbers) < Len(Middles.curr)

(***************************************************************************)
(* Helpers of the properties of the timers.                                *)
(***************************************************************************)
\* the pending timeouts whose callback recomputes the document of docKey
PendingFor(docKey) == {t \in timeouts : t.docKey = docKey}

\* the keys that have a timer, in the manager's map or in the host
TimerKeys == DOMAIN updateTimers \cup {t.docKey : t \in timeouts}

(***************************************************************************)
(* C18.  Debounce cancellation: at every moment each key has at most one   *)
(* pending recomputation, and it is the one updateTimers holds, so a       *)
(* superseded recomputation is never pending and never runs; a change      *)
(* notification for one key leaves the pending recomputations of every     *)
(* other key in place.                                                     *)
(***************************************************************************)
C18_DebounceCancellation ==
  /\ [](\A docKey \in TimerKeys :
          /\ Cardinality(PendingFor(docKey)) <= 1
          /\ docKey \in DOMAIN updateTimers
          /\ \E t \in PendingFor(docKey) : t.id = updateTimers[docKey])
  /\ [][lastCall'.op = "onDidChangeTextDocument" =>
          \A t \in timeouts : t.docKey # toString(lastCall'.uri) => t \in timeouts']_vars

\* a notification replaced the pending timer of its key while another key's
\* timer was pending
C18_Witness ==
  /\ lastCall.op = "onDidChangeTextDocument" /\ lastCall.rescheduled
  /\ Cardinality(timeouts) = 2
  /\ \A docKey \in TimerKeys : Cardinality(PendingFor(docKey)) = 1

(***************************************************************************)
(* Helpers of the properties of the block cache.                           *)
(***************************************************************************)
\* the file has a baseline and an open document
Tracked(uri) == HasBaseline(uri) /\ IsOpen(uri)

\* the document is shown in a visible editor
Visible(uri) == uri \in visibleTextEditors

\* the cached blocks are the blocks of diff(baseline, current text)
CacheFresh(uri) ==
  Tracked(uri) /\ getBlocks(cachedChangedRanges, uri) = groupBlocks(ChangedLinesOf(uri))

(***************************************************************************)
(* C17.  Cache freshness: after a change notification for a file with a    *)
(* baseline and an open document, a recomputation eventually runs and the  *)
(* cached blocks are those of diff(baseline, latest text), unless the file *)
(* stops being tracked: the cache never stays stale.                       *)
(***************************************************************************)
C17_CacheFreshness ==
  \A uri \in FileUris :
    (ChangeNotified(uri) /\ Tracked(uri)) ~> (CacheFresh(uri) \/ ~Tracked(uri))

(***************************************************************************)
(* C17, amended.  After a change notification for a file with a baseline   *)
(* whose document is shown in a visible editor, the cached blocks          *)
(* eventually are those of diff(baseline, latest text), unless the         *)
(* document is hidden or the file stops being tracked first; and once they *)
(* are, a step that leaves the baseline and the text alone and the         *)
(* document shown leaves the cached blocks alone.  The cache of a document *)
(* that is not shown is recomputed when it is shown again, not before.     *)
(***************************************************************************)
C17_FreshWhileShown ==
  /\ \A uri \in FileUris :
       (ChangeNotified(uri) /\ Tracked(uri) /\ Visible(uri))
         ~> (CacheFresh(uri) \/ ~Tracked(uri) \/ ~Visible(uri))
  /\ [][\A uri \in FileUris :
          (/\ CacheFresh(uri) /\ Visible(uri)
           /\ uri \in visibleTextEditors'
           /\ uri \in DOMAIN textDocuments' /\ textDocuments'[uri] = textDocuments[uri]
           /\ getKey(uri) \in DOMAIN originalContents'
           /\ originalContents'[getKey(uri)] = originalContents[getKey(uri)])
            => getBlocks(cachedChangedRanges', uri) = getBlocks(cachedChangedRanges, uri)]_vars

\* the timer ran for a shown document and cached a block
C17_Witness ==
  /\ lastCall.op = "updateTimer"
  /\ \E uri \in FileUris :
       /\ toString(uri) = lastCall.docKey
       /\ Visible(uri) /\ CacheFresh(uri)
       /\ getBlocks(cachedChangedRanges, uri) # <<>>
(***************************************************************************)
(* Helpers of the properties of undoBlock.                                 *)
(***************************************************************************)
\* what undoBlock computed for the request, from the text it was called on
Plan ==
  undoPlan(originalText, previousText, request.startLine, request.endLine, maxDistance)

\* the lines of the document before and after undoBlock
PreviousLines == normalizedLines(previousText)

PatchedLines == normalizedLines(currentText)

(***************************************************************************)
(* C21.  Reverting a block {s,e} whose baseline range [origStart, origEnd) *)
(* is empty removes exactly the lines s..e of the current text and adds    *)
(* nothing; baseline [a,c] and current [a,b,c] with block {1,1} give       *)
(* [a,c], and baseline "a" with current "a\nb" gives "a".                  *)
(***************************************************************************)
C21_RevertInsertion ==
  (pc = "undone" /\ RequestIsBlock) =>
    /\ Plan.origStart >= Plan.origEnd =>
         /\ PatchedLines = withoutLines(PreviousLines, RequestedLines, 0)
         /\ Len(PatchedLines) = Len(PreviousLines) - Cardinality(RequestedLines)
    /\ (originalText = InsertedBaseline /\ previousText = ExampleBaseline) =>
         currentText = InsertedBaseline
    /\ (originalText = <<"a">> /\ previousText = <<"a", LF, "b">>) =>
         currentText = <<"a">>

(***************************************************************************)
(* C22.  Revert progress: from any baseline and current text, with the     *)
(* program's cap of the edit distance, recomputing the blocks and          *)
(* reverting one of them again and again reaches a state whose block list  *)
(* is empty.                                                               *)
(***************************************************************************)
C22_RevertProgress ==
  (maxDistance = MaxEditDistance) => <>(pc = "diffed" /\ blocks = <<>>)

\* the first n and the last n lines of a list of lines
firstLines(lines, n) == SubSeq(lines, 1, n)

lastLines(lines, n) == SubSeq(lines, Len(lines) - n + 1, Len(lines))

\* the requested range reaches into the common prefix or the common suffix
RequestBeyondMiddle ==
  \/ request.startLine < Plan.top
  \/ request.endLine >= Len(PreviousLines) - Plan.bottom

(***************************************************************************)
(* C23.  A requested range that meets the middle region and reaches into   *)
(* the common prefix or the common suffix is clamped to the middle region: *)
(* after the patch the lines of the common prefix are still the first      *)
(* lines of the text and the lines of the common suffix still the last.    *)
(***************************************************************************)
C23_StaleRangeClamped ==
  (pc = "undone" /\ edit # NoEdit /\ RequestBeyondMiddle) =>
    /\ Len(PatchedLines) >= Plan.top + Plan.bottom
    /\ firstLines(PatchedLines, Plan.top) = firstLines(PreviousLines, Plan.top)
    /\ lastLines(PatchedLines, Plan.bottom) = lastLines(PreviousLines, Plan.bottom)

\* the pairs <<ci, oi>> of the match map undoBlock built
MatchPairs == Range(Plan.matchMap)

\* one past the largest baseline index matched to a current-middle index
\* below blockStartM, 0 if there is none
RuleOrigStart ==
  LET before == {p \in MatchPairs : p[1] < Plan.blockStartM}
  IN  IF before = {} THEN 0
      ELSE 1 + (CHOOSE oi \in {p[2] : p \in before} : \A p \in before : p[2] <= oi)

\* the baseline index matched to the first matched current-middle index
\* from `from` on, the length of the baseline middle if there is none
RuleOrigEnd(from) ==
  LET after == {p \in MatchPairs : p[1] >= from}
  IN  IF after = {} THEN Len(Plan.origMiddle)
      ELSE (CHOOSE p \in after : \A q \in after : p[1] <= q[1])[2]

\* the text of the baseline-middle lines [origStart, origEnd), with the
\* separator that follows it unless the range reaches the end of the text
RuleText(origStart, origEnd) ==
  replacementText(slice(Plan.origMiddle, origStart, origEnd),
                  request.endLine + 1 < Len(PreviousLines))

SwappedLines ==
  /\ Len(OrigLines) = 2 /\ Len(CurrLines) = 2
  /\ OrigLines[1] # OrigLines[2]
  /\ CurrLines = <<OrigLines[2], OrigLines[1]>>

(***************************************************************************)
(* C25.  Canonical tie-break: of the two minimal edit scripts for baseline *)
(* lines [a,b] and current lines [b,a] the diff takes the one of the       *)
(* forward Myers rule, in the search and in the backtrack alike: the       *)
(* changed lines are exactly {1}, never {0}, and so for every two distinct *)
(* lines swapped, whenever the search is not cut short by the cap.         *)
(***************************************************************************)
C25_CanonicalTieBreak ==
  (pc = "diffed" /\ ~SearchGaveUp) =>
    /\ (originalText = <<"a", LF, "b">> /\ currentText = <<"b", LF, "a">>) =>
         changedLineNumbers = <<1>>
    /\ SwappedLines => changedLineNumbers = <<1>>

\* the diff of "a\nb" and "b\na" was computed by the search
C25_Witness ==
  /\ pc = "diffed" /\ SearchRan /\ ~SearchGaveUp
  /\ originalText = <<"a", LF, "b">> /\ currentText = <<"b", LF, "a">>
  /\ changedLineNumbers = <<1>>

\* the common prefix and suffix computeChangedLines trims
DiffTop == skipCommonPrefix(OrigLines, CurrLines, 0, Min(Len(OrigLines), Len(CurrLines)))

DiffBottom ==
  skipCommonSuffix(OrigLines, CurrLines, DiffTop, 0, Min(Len(OrigLines), Len(CurrLines)))

\* the indices at which the two middle regions hold the same line
SamePosition ==
  {i \in 0..(Min(Len(Middles.orig), Len(Middles.curr)) - 1) :
     Middles.orig[i + 1] = Middles.curr[i + 1]}

(***************************************************************************)
(* C26.  Positional fallback: when the middle regions have no edit script  *)
(* of length at most maxD, the matched set is exactly the indices below    *)
(* both lengths at which the two middle regions hold the same line, and    *)
(* the changed lines are top + i for every other index i of the current    *)
(* middle region.                                                          *)
(***************************************************************************)
C26_PositionalFallback ==
  (SearchRan /\ MiddleEditDistance > SearchMaxD) =>
    /\ myersMatchedWithin(Middles.orig, Middles.curr, maxDistance) = SamePosition
    /\ Range(changedLineNumbers)
         = {DiffTop + i : i \in (0..(Len(Middles.curr) - 1)) \ SamePosition}
    /\ changedLineNumbers = ascending(Range(changedLineNumbers), 0, Len(CurrLines))

\* the search gave up; a line was matched by position, another was not
C26_Witness ==
  /\ SearchRan /\ MiddleEditDistance > SearchMaxD
  /\ SamePosition # {}
  /\ changedLineNumbers # <<>>

(***************************************************************************)
(* Helpers of the properties of the baseline store.                        *)
(***************************************************************************)
\* the baseline of the file, if it has one
BaselineOf(uri) ==
  IF HasBaseline(uri) THEN <<originalContents[getKey(uri)]>> ELSE <<>>

\* the operations on the store that are given one file
FileOps == {"readFile", "updateBaseline", "keepBlock", "resetFileBaseline", "undoBlock"}

\* the operations on the store that are given an authority
AuthorityOps == {"resetBaselines", "unregisterFileSystem"}

\* the call was an operation on another file than uri, or on another
\* authority than that of uri
OnAnother(call, uri) ==
  \/ call.op \in FileOps /\ getKey(call.uri) # getKey(uri)
  \/ call.op \in AuthorityOps /\ call.authority # uri.authority

(***************************************************************************)
(* C27.  Key independence: an operation of the store on one file (capture, *)
(* commit, keepBlock, resetFileBaseline, undoBlock) leaves the baseline    *)
(* and the modified flag of every other file as they were, and             *)
(* resetBaselines and unregisterFileSystem for one authority leave those   *)
(* of every file of another authority as they were.                        *)
(***************************************************************************)
C27_KeyIndependence ==
  [][\A uri \in StoreUris :
       OnAnother(lastCall', uri) =>
         /\ BaselineOf(uri)' = BaselineOf(uri)
         /\ isModified(uri)' = isModified(uri)]_vars

\* the file system of authority h was unregistered while the file of
\* authority h1 had a baseline and was modified
C27_Witness ==
  /\ lastCall.op = "unregisterFileSystem" /\ lastCall.authority = <<"h">>
  /\ \A uri \in StoreUris : uri.authority = <<"h">> => ~HasBaseline(uri)
  /\ \E uri \in StoreUris : uri.authority = <<"h", "1">> /\ HasBaseline(uri) /\ isModified(uri)

(***************************************************************************)
(* C28.  In every reachable state every key of the modified set has a      *)
(* baseline: modifiedFiles is a subset of the keys of originalContents.    *)
(***************************************************************************)
C28_ModifiedHasBaseline == modifiedFiles \subseteq DOMAIN originalContents

\* a file is modified and its document was closed: it keeps its baseline
C28_Witness ==
  /\ lastCall.op = "closeTextDocument"
  /\ lastCall.uri \notin DOMAIN textDocuments
  /\ getKey(lastCall.uri) \in modifiedFiles

(***************************************************************************)
(* C29.  Prefix and suffix trimming never overlap: for all texts, top +    *)
(* bottom is at most the smaller number of lines, in computeChangedLines   *)
(* and in undoBlock, which compute the same top and bottom; and every      *)
(* changed line lies in [top, len(current) - bottom).                      *)
(***************************************************************************)
C29_TrimNeverOverlaps ==
  /\ DiffTop + DiffBottom <= Min(Len(OrigLines), Len(CurrLines))
  /\ commonPrefixLen(OrigLines, CurrLines) = DiffTop
  /\ commonSuffixLen(OrigLines, CurrLines, DiffTop) = DiffBottom
  /\ pc = "diffed" =>
       \A i \in Range(changedLineNumbers) : DiffTop <= i /\ i < Len(CurrLines) - DiffBottom
  /\ pc = "undone" =>
       /\ Plan.top + Plan.bottom <= Min(Len(Plan.origLines), Len(Plan.currLines))
       /\ Len(Plan.currMiddle) = Len(Plan.currLines) - Plan.top - Plan.bottom

\* the scan of the suffix was stopped by the bound, not by a line that
\* differs, and the diff marked a line
C29_Witness ==
  /\ pc = "diffed" /\ changedLineNumbers # <<>>
  /\ DiffTop > 0
  /\ DiffTop + DiffBottom = Min(Len(OrigLines), Len(CurrLines))
  /\ OrigLines[Len(OrigLines) - DiffBottom] = CurrLines[Len(CurrLines) - DiffBottom]

\* the indices of the current middle region that the diff did not mark
UnmarkedInMiddle ==
  {i \in 0..(Len(Plan.currMiddle) - 1) : Plan.top + i \notin Range(changedLineNumbers)}

(***************************************************************************)
(* C30.  MatchMap well-formedness: for non-empty middle regions the map    *)
(* undoBlock builds has as its domain exactly the indices of the current   *)
(* middle region that the diff reports as matched, is strictly increasing  *)
(* in both indices, and pairs equal lines.                                 *)
(***************************************************************************)
C30_MatchMapWellFormed ==
  (pc = "undone" /\ Len(Plan.origMiddle) > 0 /\ Len(Plan.currMiddle) > 0) =>
    LET matchMap == Plan.matchMap
    IN  /\ {p[1] : p \in MatchPairs} = UnmarkedInMiddle
        /\ \A i, j \in 1..Len(matchMap) :
             i < j => (matchMap[i][1] < matchMap[j][1] /\ matchMap[i][2] < matchMap[j][2])
        /\ \A p \in MatchPairs :
             /\ p[2] >= 0 /\ p[2] < Len(Plan.origMiddle)
             /\ Plan.origMiddle[p[2] + 1] = Plan.currMiddle[p[1] + 1]

\* undoBlock built a map with a pair after the search gave up
C30_Witness ==
  /\ pc = "undone" /\ Len(Plan.origMiddle) > 0 /\ Len(Plan.currMiddle) > 0
  /\ MiddleEditDistanceOf(Plan.origMiddle, Plan.currMiddle) > maxDistance
  /\ Len(Plan.matchMap) >= 1
====
